---- MODULE Spec2Model ----
(***************************************************************************)
(* localdeploy: a daemon that fetches a git branch on a fixed interval and *)
(* (re)starts a child process after every fetch.  The model follows        *)
(* src/src/main.rs: Main::new, Main::run, Main::spawn_cmd,                 *)
(* Main::fetch_git_repo, the credentials callback of Main::fetch_options   *)
(* and Main::parse_cmd_args.  The operating system (process table), the    *)
(* git transport and the upstream repository are the environment.          *)
(***************************************************************************)
EXTENDS Integers, Sequences, FiniteSets, TLC

VARIABLES
    pc,          \* position of the main thread: "new", "transfer", "sync", "spawn", "sleep", "kill", "returned_err", "panicked"
    argv,        \* the ArgMatches handed to Main::new
    self,        \* the fields of struct Main
    err,         \* the Error returned by new/run, or the panic message
    xfer,        \* the git transfer in flight: "none", "clone" or "fetch"
    credCalls,   \* invocations of the credentials callback in the transfer in flight
    lastCred,    \* the latest invocation of the credentials callback and its result
    procs,       \* the operating system's process table, per pid
    upstream,    \* the branch head on the remote
    trackingRef, \* the remote-tracking ref of the local repository
    pathIsRepo,  \* whether Repository::discover finds a repository at repo_path
    h            \* history: what the run loop did last (observation only)

vars == <<pc, argv, self, err, xfer, credCalls, lastCred, procs, upstream,
          trackingRef, pathIsRepo, h>>

----------------------------------------------------------------------------
(* Bounds of the model *)

\* longest command string drawn as input of parse_cmd_args
MaxLen == 4
\* size of the operating system's pid pool
MaxProcs == 3
\* upstream pushes observed
MaxRef == 2
\* credential callbacks the transport makes in one transfer before giving up
MaxCredCalls == 2

----------------------------------------------------------------------------
(* Option<T> as a sequence of length 0 or 1 *)

None == <<>>
Some(x) == <<x>>
IsSome(o) == o # <<>>
Unwrap(o) == o[1]

----------------------------------------------------------------------------
(* Strings are sequences of characters *)

Alphabet == {"n", "s", " ", "\t"}
\* char::is_whitespace, restricted to the alphabet
White == {" ", "\t"}

Strings(n) == UNION {[1..k -> Alphabet] : k \in 0..n}

RECURSIVE trim_start(_)
trim_start(s) ==
    IF s = <<>> THEN s
    ELSE IF Head(s) \in White THEN trim_start(Tail(s)) ELSE s

RECURSIVE trim_end(_)
trim_end(s) ==
    IF s = <<>> THEN s
    ELSE IF s[Len(s)] \in White THEN trim_end(SubSeq(s, 1, Len(s) - 1)) ELSE s

\* str::trim
trim(s) == trim_end(trim_start(s))

\* str::split(" "): one token per separator plus one, empty tokens kept
RECURSIVE split(_, _)
split(s, sep) ==
    IF \A i \in 1..Len(s) : s[i] # sep THEN <<s>>
    ELSE LET i == CHOOSE j \in 1..Len(s) :
                      s[j] = sep /\ \A k \in 1..(j - 1) : s[k] # sep
         IN  <<SubSeq(s, 1, i - 1)>> \o split(SubSeq(s, i + 1, Len(s)), sep)

\* str::split_whitespace: the maximal runs of non-whitespace characters
RECURSIVE split_whitespace(_)
split_whitespace(s) ==
    LET t == trim_start(s) IN
    IF t = <<>> THEN <<>>
    ELSE LET ends == {j \in 1..Len(t) : t[j] \in White}
             i == IF ends = {} THEN Len(t) + 1
                  ELSE CHOOSE j \in ends : \A k \in ends : j <= k
         IN  <<SubSeq(t, 1, i - 1)>> \o split_whitespace(SubSeq(t, i, Len(t)))

Ok(v) == [ok |-> TRUE, val |-> v, err |-> "none"]
Err(e) == [ok |-> FALSE, val |-> <<>>, err |-> e]

\* Main::parse_cmd_args
parse_cmd_args(command) ==
    LET args == split(trim(command), " ") IN
    IF Len(args) <= 1 THEN Err("MissingCommand")
    ELSE Ok(<<Head(args), Tail(args)>>)

----------------------------------------------------------------------------
(* Construction: Main::new *)

\* struct Main before any field is set
NoSelf ==
    [origin |-> "", branch |-> "", cmd |-> <<>>, args |-> <<>>,
     repo_path |-> "", child |-> None, repo |-> None, interval |-> <<0>>,
     username |-> "", public_key_path |-> "", private_key_path |-> "",
     passphrase |-> None]

\* value_of(name).unwrap_or(default)
unwrap_or(o, default) == IF IsSome(o) THEN Unwrap(o) ELSE default

\* A u64 is kept as its decimal digits, most significant first and without
\* leading zeros, so that values up to 2^64 - 1 are exact
DigitChars == {"0", "1", "2", "3", "4", "5", "6", "7", "8", "9"}
DigitOf(c) ==
    CASE c = "0" -> 0 [] c = "1" -> 1 [] c = "2" -> 2 [] c = "3" -> 3
      [] c = "4" -> 4 [] c = "5" -> 5 [] c = "6" -> 6 [] c = "7" -> 7
      [] c = "8" -> 8 [] c = "9" -> 9

\* u64::MAX, 18446744073709551615
U64Max == <<1, 8, 4, 4, 6, 7, 4, 4, 0, 7, 3, 7, 0, 9, 5, 5, 1, 6, 1, 5>>

RECURSIVE Canonical(_)
Canonical(d) ==
    IF Len(d) > 1 /\ Head(d) = 0 THEN Canonical(Tail(d)) ELSE d

\* a <= b for canonical digit sequences
RECURSIVE LexLeq(_, _)
LexLeq(a, b) ==
    IF a = <<>> THEN TRUE
    ELSE IF Head(a) # Head(b) THEN Head(a) < Head(b)
    ELSE LexLeq(Tail(a), Tail(b))
Leq(a, b) == Len(a) < Len(b) \/ (Len(a) = Len(b) /\ LexLeq(a, b))

\* the interval used when none can be parsed: 3600
DefaultInterval == <<3, 6, 0, 0>>

\* parse_u64 reading the text as a signed number: "-1" wraps to u64::MAX
parse_u64_signed(text) ==
    LET body == IF text # <<>> /\ Head(text) \in {"+", "-"} THEN Tail(text) ELSE text IN
    IF body = <<>> \/ \E i \in 1..Len(body) : body[i] \notin DigitChars
    THEN None
    ELSE LET v == Canonical([i \in 1..Len(body) |-> DigitOf(body[i])]) IN
         IF ~Leq(v, U64Max) THEN None
         ELSE IF Head(text) = "-" /\ v # <<0>> THEN Some(U64Max) ELSE Some(v)

\* str::parse::<u64> as an Option (.ok()): an optional "+", then one or more
\* decimal digits, with a value of at most u64::MAX
parse_u64(text) ==
    LET body == IF text # <<>> /\ Head(text) = "+" THEN Tail(text) ELSE text IN
    IF body = <<>> \/ \E i \in 1..Len(body) : body[i] \notin DigitChars
    THEN None
    ELSE LET v == Canonical([i \in 1..Len(body) |-> DigitOf(body[i])]) IN
         IF Leq(v, U64Max) THEN Some(v) ELSE None

\* match (is_present("new"), is_present("path")) with the clone going to the
\* current directory when no path is given
repo_step_cwd(isNew, isPath) ==
    IF isNew THEN "clone" ELSE IF isPath THEN "discover" ELSE "MissingPath"

\* match (app.is_present("new"), app.is_present("path")) in Main::new
repo_step(isNew, isPath) ==
    IF isNew /\ isPath THEN "clone"
    ELSE IF isNew THEN "MissingPath"
    ELSE IF isPath THEN "discover"
    ELSE "MissingPath"

\* _self.repo = Some(repo) left out
with_repo_dropped(s, repo) == s

\* _self.repo = Some(repo) at the end of Main::new
with_repo(s, repo) == [s EXCEPT !.repo = Some(repo)]

\* Main::new up to the choice between clone and discover.  cwd is
\* env::current_dir() and home is env::var("HOME"), None when they fail;
\* typed is what the operator types at the passphrase prompt.
new(app, cwd, home, typed) ==
    IF app.command = None THEN Err("MissingCommand")
    ELSE IF app.path = None /\ cwd = None THEN Err("IoError")
    ELSE IF (app.public_key = None \/ app.private_key = None) /\ home = None
         THEN Err("EnvError")
    ELSE LET parsed == parse_cmd_args(Unwrap(app.command)) IN
         IF ~parsed.ok THEN Err(parsed.err)
         ELSE LET _self ==
                    [origin |-> unwrap_or(app.origin, "origin"),
                     branch |-> unwrap_or(app.branch, "main"),
                     cmd |-> parsed.val[1],
                     args |-> parsed.val[2],
                     repo_path |-> IF IsSome(app.path) THEN Unwrap(app.path)
                                   ELSE Unwrap(cwd),
                     child |-> None,
                     repo |-> None,
                     interval |-> IF IsSome(app.interval)
                                  THEN unwrap_or(parse_u64(Unwrap(app.interval)),
                                                 DefaultInterval)
                                  ELSE DefaultInterval,
                     username |-> unwrap_or(app.username, ""),
                     public_key_path |-> IF IsSome(app.public_key)
                                         THEN Unwrap(app.public_key)
                                         ELSE "$HOME/.ssh/id_rsa.pub",
                     private_key_path |-> IF IsSome(app.private_key)
                                          THEN Unwrap(app.private_key)
                                          ELSE "$HOME/.ssh/id_rsa",
                     passphrase |-> IF app.use_passphrase THEN Some(typed)
                                    ELSE None]
                  step == repo_step(IsSome(app.new), IsSome(app.path))
              IN  IF step = "MissingPath" THEN Err("MissingPath")
                  ELSE Ok([self |-> _self, step |-> step])

----------------------------------------------------------------------------
(* The credentials callback of Main::fetch_options *)

NoCred == [kind |-> "none", user |-> "", public |-> "", private |-> "", pass |-> None]

\* Cred::ssh_key_from_agent(username)
ssh_key_from_agent(username, agentOk) ==
    IF agentOk THEN [NoCred EXCEPT !.kind = "agent", !.user = username]
    ELSE [NoCred EXCEPT !.kind = "error"]

\* Cred::ssh_key(username, publickey, privatekey, passphrase)
ssh_key(username, public, private, pass, keyOk) ==
    IF keyOk THEN [kind |-> "ssh_key", user |-> username, public |-> public,
                   private |-> private, pass |-> pass]
    ELSE [NoCred EXCEPT !.kind = "error"]

\* the closure given to callbacks.credentials; kind "panic" is the unwrap of
\* an absent username_from_url
credentials(s, username_from_url, agentOk, keyOk) ==
    LET username == IF IsSome(username_from_url) THEN Unwrap(username_from_url)
                    ELSE s.username
        cred == ssh_key_from_agent(username, agentOk)
    IN  IF cred.kind = "error"
        THEN IF username_from_url = None
             THEN [NoCred EXCEPT !.kind = "panic"]
             ELSE ssh_key(Unwrap(username_from_url), s.public_key_path,
                          s.private_key_path, s.passphrase, keyOk)
        ELSE cred

----------------------------------------------------------------------------
(* The loop of Main::run *)

\* run with the kill moved before the sleep
run_next_kill_early(at) ==
    CASE at = "sync" -> "spawn"
      [] at = "spawn" -> "kill"
      [] at = "kill" -> "sleep"
      [] at = "sleep" -> "sync"

\* run with a loop body that is left after one cycle
run_next_once(at) ==
    CASE at = "sync" -> "spawn"
      [] at = "spawn" -> "sleep"
      [] at = "sleep" -> "kill"
      [] at = "kill" -> "returned_ok"

\* run with the kill left out of the loop body
run_next_no_kill(at) ==
    CASE at = "sync" -> "spawn"
      [] at = "spawn" -> "sleep"
      [] at = "sleep" -> "sync"
      [] at = "kill" -> "sync"

\* the statement of the loop body that follows statement `at`
run_next(at) ==
    CASE at = "sync" -> "spawn"
      [] at = "spawn" -> "sleep"
      [] at = "sleep" -> "kill"
      [] at = "kill" -> "sync"

\* run with the result of fetch_git_repo dropped instead of propagated
try_sync_ignored(res) == run_next("sync")

\* self.fetch_git_repo()? in run: an Err leaves run, Ok goes on
try_sync(res) == IF res.ok THEN run_next("sync") ELSE "returned_err"

\* .spawn().expect("failed to spawn cmd") followed by Ok(()) and run's `?`
spawn_cmd(spawned) == IF spawned THEN run_next("spawn") ELSE "panicked"

\* child.kill()? instead of let _ =: killing a process that is not running
\* leaves run with the io error
try_kill_propagated(state) ==
    IF state = "running" THEN run_next("kill") ELSE "returned_err"

\* let _ = child.kill() in run: whatever kill returns for a process in
\* `state`, the result is dropped and the loop goes on
try_kill(state) == run_next("kill")

\* spawn_cmd taking self.args instead of cloning them
store_child_take_args(s, p) == [s EXCEPT !.child = Some(p), !.args = <<>>]

\* self.child = Some(..) in spawn_cmd: the only field run assigns
store_child(s, p) == [s EXCEPT !.child = Some(p)]

\* what fetch_git_repo asks of the repository: the remote it looks up and the
\* refspecs it fetches
fetch_request(s) == [remote |-> s.origin, refspecs |-> <<s.branch>>]

\* let _ = child.kill(): the state of the process afterwards.  signalled is
\* whether the operating system delivered the signal.
kill(state, signalled) ==
    IF state = "running" /\ signalled THEN "killed" ELSE state

\* a fetch that leaves the remote-tracking ref where it was
fetched_stale(ref, head) == ref

\* the remote-tracking ref after a completed fetch or clone
fetched(ref, head) == head

Stopped == {"returned_err", "panicked"}
Pids == 1..MaxProcs

\* the pid the operating system gives the next process, 0 when it has none
\* left (pids are interchangeable: the lowest one not running is taken)
fork(table) ==
    LET idle == {p \in Pids : table[p] # "running"} IN
    IF idle = {} THEN 0 ELSE CHOOSE p \in idle : \A q \in idle : p <= q

NoHist ==
    [lastSync |-> "none", lastSpawn |-> "none", cycleChild |-> None,
     slept |-> None, killed |-> None, synced |-> FALSE, pushed |-> FALSE,
     order |-> <<>>, request |-> None, unkilled |-> {}, earlyExit |-> FALSE]

----------------------------------------------------------------------------
(* Initial states: the command line, before Main::new runs *)

\* command lines drawn for the daemon: no -c, a bare command, "n s"
Commands == {None, Some(<<"n">>), Some(<<"n", " ", "s">>)}

\* the ArgMatches clap produces from the options on the command line: an
\* argument with a default_value is always present, `given` holds the ones
\* the operator wrote, and no argument is named "origin"
get_matches(cli) ==
    [command |-> cli.command,
     new |-> cli.new,
     path |-> cli.path,
     origin |-> None,
     remote |-> Some(unwrap_or(cli.remote, "origin")),
     branch |-> Some(unwrap_or(cli.branch, "main")),
     interval |-> Some(unwrap_or(cli.interval, <<"3", "6", "0", "0">>)),
     username |-> Some("git"),
     public_key |-> Some("~/.ssh/id_rsa.pub"),
     private_key |-> Some("~/.ssh/id_rsa"),
     use_passphrase |-> cli.use_passphrase,
     given |-> {a \in {"remote", "branch", "interval"} : IsSome(cli[a])}]

\* command lines that leave remote, branch and interval to their defaults
Args ==
    {get_matches(cli) : cli \in
        [command : Commands,
         new : {None, Some("url")},
         path : {None, Some("/repo")},
         remote : {None},
         branch : {None},
         interval : {None},
         use_passphrase : BOOLEAN]}

InitEnv ==
    /\ pc = "new"
    /\ self = NoSelf
    /\ err = "none"
    /\ xfer = "none"
    /\ credCalls = 0
    /\ lastCred = None
    /\ procs = [p \in Pids |-> "free"]
    /\ upstream = 0
    /\ trackingRef = 0
    /\ h = NoHist

Init ==
    /\ argv \in Args
    /\ pathIsRepo \in BOOLEAN
    /\ InitEnv

----------------------------------------------------------------------------
(* Actions *)

\* main: Main::new(app)?, then main.run()
New ==
    /\ pc = "new"
    /\ \E cwd \in {None, Some("/cwd")}, home \in {None, Some("/home")},
          typed \in {"", "pw"}, mkdirOk \in BOOLEAN :
         LET r == new(argv, cwd, home, typed) IN
         IF ~r.ok
         THEN /\ pc' = "returned_err"
              /\ err' = r.err
              /\ UNCHANGED <<self, xfer>>
         ELSE IF r.val.step = "clone"
         THEN \* Main::new_repo: create_dir_all(path)?, then builder.clone
              IF mkdirOk
              THEN /\ pc' = "transfer"
                   /\ xfer' = "clone"
                   /\ self' = r.val.self
                   /\ err' = err
              ELSE /\ pc' = "returned_err"
                   /\ err' = "IoError"
                   /\ UNCHANGED <<self, xfer>>
         ELSE \* Repository::discover(repo_path)?
              IF pathIsRepo
              THEN /\ pc' = "sync"
                   /\ self' = with_repo(r.val.self, "repo")
                   /\ UNCHANGED <<err, xfer>>
              ELSE /\ pc' = "returned_err"
                   /\ err' = "GitError"
                   /\ UNCHANGED <<self, xfer>>
    /\ UNCHANGED <<argv, credCalls, lastCred, procs, upstream, trackingRef,
                   pathIsRepo, h>>

\* the transfer in flight ends with result res: a clone ends Main::new, a
\* fetch ends fetch_git_repo inside run
EndTransfer(call, res) ==
    /\ xfer' = "none"
    /\ credCalls' = 0
    /\ lastCred' = IF res.ok THEN None ELSE call
    /\ trackingRef' = IF res.ok THEN fetched(trackingRef, upstream) ELSE trackingRef
    /\ IF xfer = "clone"
       THEN /\ pc' = IF res.ok THEN "sync" ELSE "returned_err"
            /\ self' = IF res.ok THEN with_repo(self, "repo") ELSE self
            /\ h' = IF res.ok THEN [h EXCEPT !.synced = TRUE, !.pushed = FALSE] ELSE h
       ELSE /\ pc' = try_sync(res)
            /\ self' = self
            /\ h' = IF res.ok
                    THEN [h EXCEPT !.lastSync = "ok", !.synced = TRUE, !.pushed = FALSE]
                    ELSE [h EXCEPT !.lastSync = "err"]
    /\ err' = IF res.ok THEN err ELSE res.err

\* run: self.fetch_git_repo()?, up to the start of the fetch
Sync ==
    /\ pc = "sync"
    /\ \E found \in BOOLEAN :
         IF self.repo = None
         THEN /\ pc' = try_sync(Ok(<<>>))
              /\ h' = [h EXCEPT !.lastSync = "skipped", !.cycleChild = None,
                                !.slept = None, !.earlyExit = FALSE,
                                !.order = <<"sync">>]
              /\ UNCHANGED <<err, xfer>>
         ELSE IF found
         THEN /\ pc' = "transfer"
              /\ xfer' = "fetch"
              /\ h' = [h EXCEPT !.lastSync = "none", !.cycleChild = None,
                                !.slept = None, !.earlyExit = FALSE,
                                !.order = <<"sync">>,
                                !.request = Some(fetch_request(self))]
              /\ err' = err
         ELSE \* repo.find_remote(&self.origin)?
              /\ pc' = try_sync(Err("GitError"))
              /\ err' = "GitError"
              /\ h' = [h EXCEPT !.lastSync = "err", !.cycleChild = None,
                                !.slept = None, !.earlyExit = FALSE,
                                !.order = <<"sync">>,
                                !.request = Some(fetch_request(self))]
              /\ xfer' = xfer
    /\ UNCHANGED <<argv, self, credCalls, lastCred, procs, upstream, trackingRef,
                   pathIsRepo>>

\* the transport asks for credentials: one invocation of the callback
Credentials ==
    /\ pc = "transfer"
    /\ credCalls < MaxCredCalls
    /\ \E username_from_url \in {None, Some("url_user")},
          agentOk \in BOOLEAN, keyOk \in BOOLEAN, accepted \in BOOLEAN :
         LET cred == credentials(self, username_from_url, agentOk, keyOk)
             call == Some([during |-> xfer,
                           username_from_url |-> username_from_url,
                           agentOk |-> agentOk, keyOk |-> keyOk,
                           result |-> cred])
         IN
         IF cred.kind = "panic"
         THEN /\ pc' = "panicked"
              /\ err' = "called Option::unwrap() on a None value"
              /\ lastCred' = call
              /\ credCalls' = credCalls + 1
              /\ UNCHANGED <<self, xfer, trackingRef, h>>
         ELSE IF cred.kind = "error"
         THEN EndTransfer(call, Err("GitError"))
         ELSE IF accepted
         THEN EndTransfer(call, Ok(<<>>))
         ELSE IF credCalls + 1 < MaxCredCalls
         THEN \* rejected by the server: the transport will ask again
              /\ lastCred' = call
              /\ credCalls' = credCalls + 1
              /\ UNCHANGED <<pc, self, err, xfer, trackingRef, h>>
         ELSE EndTransfer(call, Err("GitError"))
    /\ UNCHANGED <<argv, procs, upstream, pathIsRepo>>

\* the transfer ends without (further) credentials: completed, or failed
\* (unreachable network, unknown branch, bad URL)
Transfer ==
    /\ pc = "transfer"
    /\ \E ok \in BOOLEAN :
         EndTransfer(lastCred, IF ok THEN Ok(<<>>) ELSE Err("GitError"))
    /\ UNCHANGED <<argv, procs, upstream, pathIsRepo>>

\* run: self.spawn_cmd()?
Spawn ==
    /\ pc = "spawn"
    /\ \E p \in {0, fork(procs)} :
         LET spawned == p \in Pids IN
         /\ pc' = spawn_cmd(spawned)
         /\ IF spawned
            THEN /\ procs' = [procs EXCEPT ![p] = "running"]
                 /\ self' = store_child(self, p)
                 /\ err' = err
                 /\ h' = [h EXCEPT !.lastSpawn = "ok", !.cycleChild = Some(p),
                                   !.order = Append(@, "spawn"),
                                   !.unkilled = @ \cup {p}]
            ELSE /\ err' = "failed to spawn cmd"
                 /\ h' = [h EXCEPT !.lastSpawn = "failed"]
                 /\ UNCHANGED <<procs, self>>
    /\ UNCHANGED <<argv, xfer, credCalls, lastCred, upstream, trackingRef, pathIsRepo>>

\* run: thread::sleep(Duration::from_secs(self.interval)) returns
Sleep ==
    /\ pc = "sleep"
    /\ pc' = run_next("sleep")
    /\ h' = [h EXCEPT !.slept = Some(self.interval), !.order = Append(@, "sleep")]
    /\ UNCHANGED <<argv, self, err, xfer, credCalls, lastCred, procs, upstream,
                   trackingRef, pathIsRepo>>

\* run: if let Some(child) = &mut self.child { let _ = child.kill(); }
Kill ==
    /\ pc = "kill"
    /\ pc' = IF IsSome(self.child) THEN try_kill(procs[Unwrap(self.child)])
             ELSE run_next("kill")
    /\ \E signalled \in BOOLEAN :
         procs' = IF IsSome(self.child)
                  THEN [procs EXCEPT ![Unwrap(self.child)] = kill(@, signalled)]
                  ELSE procs
    /\ h' = [h EXCEPT !.killed = self.child, !.order = Append(@, "kill"),
                      !.unkilled = IF IsSome(self.child)
                                   THEN @ \ {Unwrap(self.child)} ELSE @]
    /\ UNCHANGED <<argv, self, err, xfer, credCalls, lastCred, upstream,
                   trackingRef, pathIsRepo>>

\* environment: a running child exits on its own
ChildExit ==
    /\ pc \notin Stopped
    /\ \E p \in Pids :
         /\ procs[p] = "running"
         /\ procs' = [procs EXCEPT ![p] = "exited"]
         /\ h' = IF pc = "sleep" /\ self.child = Some(p)
                 THEN [h EXCEPT !.earlyExit = TRUE] ELSE h
    /\ UNCHANGED <<pc, argv, self, err, xfer, credCalls, lastCred, upstream,
                   trackingRef, pathIsRepo>>

\* environment: somebody pushes to the branch on the remote
Push ==
    /\ pc \notin Stopped
    /\ pc # "new"
    /\ upstream < MaxRef
    /\ upstream' = upstream + 1
    /\ h' = [h EXCEPT !.pushed = TRUE]
    /\ UNCHANGED <<pc, argv, self, err, xfer, credCalls, lastCred, procs,
                   trackingRef, pathIsRepo>>

\* the steps of the daemon itself
Daemon == New \/ Sync \/ Credentials \/ Transfer \/ Spawn \/ Sleep \/ Kill

Next == Daemon \/ ChildExit \/ Push

Spec == Init /\ [][Next]_vars

\* the main thread is always scheduled: while the daemon can step, it does
FairSpec == Spec /\ WF_vars(Daemon)

----------------------------------------------------------------------------
(* parse_cmd_args on every command string up to MaxLen characters, applied *)
(* by Main::new to a command line that names an existing repository        *)

InitParse ==
    /\ argv \in {get_matches(cli) : cli \in
                    [command : {Some(c) : c \in Strings(MaxLen)},
                     new : {None},
                     path : {Some("/repo")},
                     remote : {None},
                     branch : {None},
                     interval : {None},
                     use_passphrase : {FALSE}]}
    /\ pathIsRepo = TRUE
    /\ InitEnv

SpecParse == InitParse /\ [][New]_vars

----------------------------------------------------------------------------
(* The daemon on an existing repository, with the remote, the branch and   *)
(* the interval written on the command line                                 *)

\* texts of -i that are a u64, with the number each denotes
ValidIntervals ==
    {[text |-> <<"0">>, value |-> <<0>>],
     [text |-> <<"7">>, value |-> <<7>>],
     [text |-> <<"0", "7">>, value |-> <<7>>],
     [text |-> <<"4", "2", "9", "4", "9", "6", "7", "2", "9", "6">>,
      value |-> <<4, 2, 9, 4, 9, 6, 7, 2, 9, 6>>],
     [text |-> <<"1", "8", "4", "4", "6", "7", "4", "4", "0", "7", "3", "7",
                 "0", "9", "5", "5", "1", "6", "1", "5">>,
      value |-> U64Max]}

\* texts of -i that are not: empty, non-numeric, negative, 2^64, 10^20
InvalidIntervals ==
    {<<>>, <<"x">>, <<"7", "x">>, <<"7", " ">>, <<"-", "1">>, <<"-">>,
     <<"1", "8", "4", "4", "6", "7", "4", "4", "0", "7", "3", "7",
       "0", "9", "5", "5", "1", "6", "1", "6">>,
     <<"1", "0", "0", "0", "0", "0", "0", "0", "0", "0", "0", "0",
       "0", "0", "0", "0", "0", "0", "0", "0", "0">>}

IntervalTexts == {c.text : c \in ValidIntervals} \cup InvalidIntervals

BaseCli ==
    [command |-> Some(<<"n", " ", "s">>), new |-> None, path |-> Some("/repo"),
     remote |-> None, branch |-> None, interval |-> None,
     use_passphrase |-> FALSE]

InitArgs ==
    /\ argv \in {get_matches(cli) : cli \in
                    {[BaseCli EXCEPT !.remote = r, !.branch = b] :
                        r \in {None, Some("upstream")}, b \in {None, Some("dev")}}
                    \cup {[BaseCli EXCEPT !.interval = Some(t)] : t \in IntervalTexts}}
    /\ pathIsRepo = TRUE
    /\ InitEnv

SpecArgs == InitArgs /\ [][Next]_vars

----------------------------------------------------------------------------
(* Properties *)

Cycle == <<"sync", "spawn", "sleep", "kill">>
IsPrefix(s, t) == Len(s) <= Len(t) /\ s = SubSeq(t, 1, Len(s))
Running == {p \in Pids : procs[p] = "running"}
\* Main::new has returned Ok and main has entered run
InRun == pc \in {"sync", "spawn", "sleep", "kill"} \/ (pc = "transfer" /\ xfer = "fetch")
\* Main::new is still executing
InNew == pc = "new" \/ (pc = "transfer" /\ xfer = "clone")

\* C1: at most one child process spawned by the daemon is running (started,
\* not exited, not killed) in every reachable state.
C1_AtMostOneLiveChild == Cardinality(Running) <= 1

\* C2: within a cycle the steps happen in the order sync, spawn, sleep, kill,
\* one at a time; kill is called on the handle spawned in the same cycle, after
\* a sleep of the whole interval; the next sync starts only after that kill.
C2_CycleOrder ==
    /\ IsPrefix(h.order, Cycle)
    /\ pc = "spawn" => h.order = <<"sync">>
    /\ pc = "sleep" => h.order = <<"sync", "spawn">>
    /\ pc = "kill" => /\ h.order = <<"sync", "spawn", "sleep">>
                      /\ h.slept = Some(self.interval)
                      /\ IsSome(self.child)
                      /\ self.child = h.cycleChild
    /\ pc = "sync" => h.order \in {<<>>, Cycle}
    /\ (pc = "transfer" /\ xfer = "fetch") => h.order = <<"sync">>
    /\ h.order = Cycle => /\ IsSome(h.killed)
                          /\ h.killed = h.cycleChild
                          /\ h.slept = Some(self.interval)

C2_Witness ==
    /\ pc = "sync"
    /\ h.order = Cycle
    /\ h.killed = h.cycleChild
    /\ IsSome(h.killed)

\* C3: a failed sync makes run return that error at once; after that nothing
\* happens any more (no spawn, no retry); if it was the first sync, no process
\* was ever spawned.
C3_SyncFailureStops ==
    /\ [](h.lastSync = "err" =>
            /\ pc = "returned_err"
            /\ err = "GitError"
            /\ (h.killed = None /\ h.order = <<"sync">>) =>
                   (h.lastSpawn = "none" /\ \A p \in Pids : procs[p] = "free"))
    /\ [][pc = "returned_err" => UNCHANGED vars]_vars

C3_Witness ==
    /\ h.lastSync = "err"
    /\ pc = "returned_err"
    /\ h.lastSpawn = "ok"

\* C4: when the command cannot be started, run returns an error value.
C4_SpawnFailureReturned == h.lastSpawn = "failed" => pc = "returned_err"

\* C5: whenever the agent attempt of a credential request fails, the request
\* returns the result of a key-pair attempt with the effective username, the
\* configured key paths and the configured passphrase.
C5_KeyPairFallback ==
    (IsSome(lastCred) /\ ~Unwrap(lastCred).agentOk) =>
        LET c == Unwrap(lastCred)
            effective == IF IsSome(c.username_from_url)
                         THEN Unwrap(c.username_from_url) ELSE self.username
        IN  c.result = ssh_key(effective, self.public_key_path,
                               self.private_key_path, self.passphrase, c.keyOk)

\* C6: a credential request of a fetch in which both the agent and the key
\* pair fail ends the negotiation, whichever invocation of the fetch it is: the
\* fetch fails with a git error, which sync returns and run returns.
C6_BothFailEndsFetch ==
    (/\ IsSome(lastCred)
     /\ Unwrap(lastCred).during = "fetch"
     /\ ~Unwrap(lastCred).agentOk
     /\ ~Unwrap(lastCred).keyOk) =>
        /\ xfer = "none"
        /\ h.lastSync = "err"
        /\ pc = "returned_err"
        /\ err = "GitError"

\* C7: parse_cmd_args agrees with splitting the command on whitespace: two or
\* more tokens give (first, rest) with a non-empty first, fewer give the
\* missing-command error.
C7_ParseSplitsOnWhitespace ==
    pc # "new" =>
        LET tokens == split_whitespace(Unwrap(argv.command)) IN
        IF Len(tokens) >= 2
        THEN /\ pc = "sync"
             /\ self.cmd = Head(tokens)
             /\ self.args = Tail(tokens)
             /\ self.cmd # <<>>
        ELSE pc = "returned_err" /\ err = "MissingCommand"

\* C8: construction succeeds only if a clone URL is set and the clone
\* succeeded, or repo_path is an existing repository; in every other case, and
\* when no command is given, it returns an error and the loop never starts.
C8_ConstructionOutcome ==
    LET cloned == IsSome(argv.new) /\ IsSome(self.repo)
        viable == cloned \/ pathIsRepo
        neverRan == /\ h.order = <<>>
                    /\ h.lastSync = "none"
                    /\ h.lastSpawn = "none"
                    /\ h.killed = None
                    /\ \A p \in Pids : procs[p] = "free"
    IN  /\ InRun => viable
        /\ (~InNew /\ (~viable \/ argv.command = None)) =>
               (pc = "returned_err" /\ neverRan)

C10_NoTerminalState ==
    /\ [](pc \in {"new", "transfer", "sync", "spawn", "sleep", "kill"} \cup Stopped)
    /\ [][(InRun /\ ~InRun') =>
             (pc \in {"sync", "transfer", "spawn"} /\ pc' \in Stopped)]_vars
    /\ ([]<>(pc = "sync") \/ <>(pc \in Stopped))

C10_Witness ==
    /\ pc = "transfer"
    /\ xfer = "fetch"
    /\ IsSome(h.killed)
    /\ h.lastSpawn = "ok"

\* C11: when the child exits on its own during the sleep the daemon does not
\* react: the sleep still lasts the whole interval with no sync or spawn in
\* between, the kill on the dead handle raises no error and changes nothing,
\* and the loop goes on to the next sync.
C11_EarlyExitIgnored ==
    /\ [][(\E p \in Pids : procs[p] = "running" /\ procs'[p] = "exited") =>
             (pc' = pc /\ self' = self /\ err' = err /\ h'.order = h.order)]_vars
    /\ [](h.earlyExit =>
             /\ pc \in {"sleep", "kill", "sync"}
             /\ err = "none"
             /\ pc = "sleep" => h.order = <<"sync", "spawn">>
             /\ pc = "kill" => /\ h.order = <<"sync", "spawn", "sleep">>
                               /\ h.slept = Some(self.interval)
             /\ pc = "sync" => h.order = Cycle)
    /\ [][(pc = "kill" /\ h.earlyExit /\ h'.order # h.order) =>
             (pc' = "sync" /\ err' = err /\ procs' = procs)]_vars

C11_Witness ==
    /\ h.earlyExit
    /\ pc = "sync"
    /\ h.order = Cycle
    /\ procs[Unwrap(h.killed)] = "exited"

\* C12 as claimed: construction with a clone URL and no explicit repository
\* path does not fail for a missing path.
C12_CloneUrlNeedsNoPath ==
    (pc # "new" /\ IsSome(argv.new) /\ argv.path = None) => err # "MissingPath"

\* C12 as amended: an explicit repository path is required whether or not a
\* clone URL is given.  Without one construction returns an error, which is
\* the missing-path error once the command is accepted and the current
\* directory is readable; with one it never fails for a missing path.
C12_PathAlwaysRequired ==
    pc # "new" =>
        /\ argv.path = None =>
              /\ pc = "returned_err"
              /\ err \in {"MissingCommand", "IoError", "MissingPath"}
              /\ argv.command = Some(<<"n", " ", "s">>) =>
                     err \in {"IoError", "MissingPath"}
        /\ IsSome(argv.path) => err # "MissingPath"

C12_Witness ==
    /\ IsSome(argv.new)
    /\ argv.path = None
    /\ pc = "returned_err"
    /\ err = "MissingPath"

\* C13 as claimed: when spawn is about to replace a prior handle, kill has not
\* yet been called on that prior handle.
C13_ReplacedBeforeKilled ==
    (pc = "spawn" /\ IsSome(self.child)) => Unwrap(self.child) \in h.unkilled

\* C13 as amended: in every cycle after the first, when spawn is about to
\* replace the prior handle, kill has already been called on that handle, at
\* the end of the previous cycle.
C13_KilledBeforeReplaced ==
    (pc = "spawn" /\ IsSome(self.child)) =>
        /\ h.killed = self.child
        /\ Unwrap(self.child) \notin h.unkilled

C13_Witness ==
    /\ pc = "spawn"
    /\ IsSome(self.child)
    /\ h.killed = self.child
    /\ h.order = <<"sync">>

\* C14: every sync looks up the remote named by the operator (else "origin")
\* and fetches exactly the branch named by the operator (else "main").
C14_SyncUsesConfigured ==
    IsSome(h.request) =>
        Unwrap(h.request) =
            [remote |-> IF "remote" \in argv.given THEN Unwrap(argv.remote)
                        ELSE "origin",
             refspecs |-> <<IF "branch" \in argv.given THEN Unwrap(argv.branch)
                            ELSE "main">>]

\* C15: while run executes, no field of Main other than child changes: the
\* repository handle, the passphrase and the rest of the configuration stay
\* as construction left them.
C15_RunChangesOnlyChild ==
    [][(InRun \/ pc \in Stopped) =>
          self' = [self EXCEPT !.child = self'.child]]_vars

C15_Witness ==
    /\ pc = "spawn"
    /\ IsSome(self.child)
    /\ self.passphrase = Some("pw")
    /\ self.repo = Some("repo")

\* C16: every sleep lasts self.interval seconds, which is the number written
\* with -i when that is a u64, and 3600 when -i is absent or not a u64.
C16_SleepsParsedInterval ==
    LET raw == Unwrap(argv.interval)
        expected ==
            IF "interval" \notin argv.given \/ raw \in InvalidIntervals
            THEN <<3, 6, 0, 0>>
            ELSE (CHOOSE c \in ValidIntervals : c.text = raw).value
    IN  /\ InRun => self.interval = expected
        /\ IsSome(h.slept) => Unwrap(h.slept) = expected

C16_Witness ==
    /\ "interval" \in argv.given
    /\ Len(Unwrap(argv.interval)) = 20
    /\ Unwrap(argv.interval) \in InvalidIntervals
    /\ h.slept = Some(<<3, 6, 0, 0>>)

\* C17: when the daemon stops inside run, kill has been called on every child
\* spawned in earlier cycles.
C17_FailureAfterKill ==
    (pc \in Stopped /\ h.order # <<>>) => h.unkilled = {}

C17_Witness ==
    /\ pc \in Stopped
    /\ h.lastSpawn = "failed"
    /\ IsSome(h.killed)
    /\ h.unkilled = {}

\* C18: while a sync is in progress the tracked handle is absent or has had
\* kill called on it, and no child of the daemon is running: the deployed
\* application is down during every sync.
C18_NoChildDuringSync ==
    (pc = "sync" \/ (pc = "transfer" /\ xfer = "fetch")) =>
        /\ self.child = None \/ self.child = h.killed
        /\ h.unkilled = {}
        /\ Running = {}

\* C19: while run executes the repository handle is present, no sync takes
\* the branch that skips the fetch, and every spawn follows a completed fetch.
C19_RepoAlwaysPresent ==
    /\ InRun => IsSome(self.repo)
    /\ h.lastSync # "skipped"
    /\ pc \in {"spawn", "sleep", "kill"} => h.lastSync = "ok"
    /\ h.lastSpawn # "none" => IsSome(h.request)

C19_Witness ==
    /\ pc = "sleep"
    /\ h.lastSync = "ok"
    /\ IsSome(self.repo)
    /\ IsSome(h.request)

====
